---- MODULE Spec2Model ----
(***************************************************************************)
(* Load/store unit of the ISS (models/cpu/iss/src/lsu.cpp).                *)
(*                                                                         *)
(* The state is the Lsu object (lsu), its single request descriptor        *)
(* (io_req), the part of the execution pipeline, the timing model and the  *)
(* register file that the LSU drives (exec, timing, regfile), the memory   *)
(* interface's outstanding requests (mem) and an observation record (obs)  *)
(* of what the last handler did.  Every handler of lsu.cpp is an operator  *)
(* from a state record to a state record, so that a handler which calls    *)
(* another one is one step of the model.                                   *)
(*                                                                         *)
(* The power tables of the engine (engine/src/power/power_table.cpp) are   *)
(* modelled beside it: a table and the result of a lookup (power).         *)
(***************************************************************************)
EXTENDS Integers, Naturals, Sequences, FiniteSets, TLC

VARIABLES lsu, io_req, exec, timing, regfile, mem, obs, power

vars == <<lsu, io_req, exec, timing, regfile, mem, obs, power>>

(***************************************************************************)
(* Bounds of the model.                                                    *)
(***************************************************************************)
MaxAddr == 3        \* SpecSplit submits the addresses 0..MaxAddr and 0xFFFFFFFF
MaxSize == 8        \* SpecSplit submits the sizes 1..MaxSize
MaxLatency == 1     \* latencies 0..MaxLatency are returned by the memory
NRegs == 2          \* registers 0..NRegs-1
MaxKey == 3         \* power tables have the keys 1..MaxKey, queries are 0..MaxKey+1

(***************************************************************************)
(* Program constants.                                                      *)
(***************************************************************************)
ISS_REG_WIDTH == 32
GranuleSize == ISS_REG_WIDTH \div 8

(***************************************************************************)
(* Addresses and register values are ISS_REG_WIDTH-bit patterns, written   *)
(* here as the two's complement integer they encode (0xFFFFFFFF is -1), so *)
(* that unsigned arithmetic across the wrap from 0xFFFFFFFF to 0 is plain  *)
(* integer arithmetic.  No address near 2^(ISS_REG_WIDTH-1) is used.       *)
(***************************************************************************)
\* x & ADDR_MASK, with ADDR_MASK = ~(ISS_REG_WIDTH/8 - 1)
AndAddrMask(x) == x - (x % GranuleSize)

\* iss_get_signed_value(val, bits): the low `bits` bits of val, sign-extended
\* to the register width
iss_get_signed_value(val, bits) ==
    LET low == val % (2 ^ bits)
    IN  IF low >= 2 ^ (bits - 1) THEN low - 2 ^ bits ELSE low

\* iss_get_boxed_value(val, bits): the low `bits` bits of val with every
\* upper bit set
iss_get_boxed_value(val, bits) ==
    LET low == val % (2 ^ bits)
    IN  low - 2 ^ bits

Regs == 0 .. (NRegs - 1)
\* the first register is the source operand, the last one the destination
SrcReg == CHOOSE r \in Regs : \A q \in Regs : r <= q
DstReg == NRegs - 1
\* Spec submits native-width accesses, at the start of a granule (aligned)
\* and at its last byte (misaligned)
Addrs == {0, GranuleSize - 1}
Sizes == {GranuleSize}
\* atomic accesses: the native width and half of it
AtomicSizes == {GranuleSize \div 2, GranuleSize}
\* SpecAtomic submits atomic accesses at the start of every granule of a range
AtomicAddrs == {a \in 0 .. MaxAddr + 1 : a % GranuleSize = 0}
\* SpecSplit submits every address and size of a range
SplitAddrs == (0 .. MaxAddr) \cup {-1}
SplitSizes == 1 .. MaxSize
Latencies == 0 .. MaxLatency
MemValues == {98432}                         \* 0x18080
AtomicOpcodes == {"LR", "ADD"}
Status == {"OK", "PENDING", "INVALID"}       \* vp::IO_REQ_OK, _PENDING, _INVALID
mhartid == 0

\* mmu.load_virt_to_phys / mmu.store_virt_to_phys: the physical address of a
\* virtual one, here in another page
virt_to_phys(addr) == addr + 1024 * GranuleSize

\* regfile.reg_ref(reg): the storage of a register, used as a transfer buffer
reg_ref(reg) == reg * GranuleSize

State == [lsu |-> lsu, io_req |-> io_req, exec |-> exec, timing |-> timing,
          regfile |-> regfile, mem |-> mem, obs |-> obs]

(***************************************************************************)
(* Collaborators of the LSU: execution pipeline, timing model, memory      *)
(* interface.                                                              *)
(***************************************************************************)
stalled_inc(st) == [st EXCEPT !.exec.stalled = @ + 1]
stalled_dec(st) == [st EXCEPT !.exec.stalled = IF @ > 0 THEN @ - 1 ELSE 0]
insn_stall(st) == stalled_inc(st)
insn_hold(st) == [st EXCEPT !.exec.held = TRUE]
insn_terminate(st) == [st EXCEPT !.obs.terminated = @ + 1]
switch_to_full_mode(st) == [st EXCEPT !.exec.held = FALSE]
meth_set(st, meth) == [st EXCEPT !.exec.instr_event = meth]

stall_load_account(st, cycles) == [st EXCEPT !.timing.stall_load = @ + cycles]
event_load_account(st, n) == [st EXCEPT !.timing.event_load = @ + n]
event_misaligned_account(st, n) == [st EXCEPT !.timing.event_misaligned = @ + n]
cycle_account(st) == [st EXCEPT !.timing.cycles = @ + 1]

warning(st) == [st EXCEPT !.obs.warnings = @ + 1]
force_warning(st) == [st EXCEPT !.obs.warnings = @ + 1, !.obs.forced = @ + 1]

\* this->data.req(req): the memory interface answers err; on success it has
\* filled the latency, on PENDING it keeps the request and answers later
data_req_port(st, err, latency) ==
    LET s1 == [st EXCEPT !.obs.nreq = @ + 1, !.obs.answer = err]
    IN  CASE err = "OK" -> [s1 EXCEPT !.io_req.latency = latency]
          [] err = "PENDING" -> [s1 EXCEPT !.mem.outstanding = @ + 1]
          [] OTHER -> s1

(***************************************************************************)
(* Resume actions (Lsu::store_resume .. Lsu::load_boxed_resume).           *)
(***************************************************************************)
store_resume(st) == insn_terminate(st)

load_resume(st) == insn_terminate(st)

elw_resume(st) ==
    LET s1 == insn_terminate(st)
    IN  [s1 EXCEPT !.lsu.elw_stalled = FALSE]

load_signed_resume(st) ==
    LET s1 == insn_terminate(st)
        reg == s1.lsu.stall_reg
    IN  [s1 EXCEPT !.regfile[reg] =
            iss_get_signed_value(s1.regfile[reg], s1.lsu.stall_size * 8)]

load_boxed_resume(st) ==
    LET s1 == insn_terminate(st)
        reg == s1.lsu.stall_reg
    IN  [s1 EXCEPT !.regfile[reg] =
            iss_get_boxed_value(s1.regfile[reg], s1.lsu.stall_size * 8)]

\* _this->stall_callback(_this)
stall_callback(st) ==
    LET s1 == [st EXCEPT !.obs.resumed = @ + 1,
                         !.obs.action = st.lsu.stall_callback,
                         !.obs.txn_resumes = @ + 1,
                         !.obs.resume_cycle = st.obs.cycle,
                         !.obs.resume_held = st.exec.held]
        cb == st.lsu.stall_callback
    IN  CASE cb = "store_resume" -> store_resume(s1)
          [] cb = "load_resume" -> load_resume(s1)
          [] cb = "elw_resume" -> elw_resume(s1)
          [] cb = "load_signed_resume" -> load_signed_resume(s1)
          [] cb = "load_boxed_resume" -> load_boxed_resume(s1)
          [] OTHER -> s1

\* reset clearing the remaining size alone
reset_keeps_elw(st, active) ==
    IF active
    THEN [st EXCEPT !.lsu.misaligned_size = 0]
    ELSE st

(***************************************************************************)
(* Lsu::reset                                                              *)
(***************************************************************************)
reset(st, active) ==
    IF active
    THEN [st EXCEPT !.lsu.elw_stalled = FALSE, !.lsu.misaligned_size = 0]
    ELSE st

\* data_req_aligned without the return of the IO_REQ_INVALID branch: the
\* rejected access goes on to suspend the instruction
data_req_aligned_no_return(st, addr, data_ptr, size, is_write, err, latency) ==
    LET s1 == [st EXCEPT !.io_req.latency = 0,
                         !.io_req.addr = addr,
                         !.io_req.size = size,
                         !.io_req.is_write = is_write,
                         !.io_req.opcode = IF is_write THEN "WRITE" ELSE "READ",
                         !.io_req.data = data_ptr]
        s2 == data_req_port(s1, err, latency)
    IN  CASE err = "OK" ->
               [st |-> IF s2.io_req.latency > 0
                       THEN stall_load_account(s2, s2.io_req.latency)
                       ELSE s2,
                err |-> "OK"]
          [] OTHER ->
               [st |-> insn_stall(IF err = "INVALID" THEN warning(s2) ELSE s2),
                err |-> err]

\* data_req_aligned completing a successful access through the resume action
data_req_aligned_resumes(st, addr, data_ptr, size, is_write, err, latency) ==
    LET s1 == [st EXCEPT !.io_req.latency = 0,
                         !.io_req.addr = addr,
                         !.io_req.size = size,
                         !.io_req.is_write = is_write,
                         !.io_req.opcode = IF is_write THEN "WRITE" ELSE "READ",
                         !.io_req.data = data_ptr]
        s2 == data_req_port(s1, err, latency)
    IN  CASE err = "OK" ->
               [st |-> stall_callback(IF s2.io_req.latency > 0
                                      THEN stall_load_account(s2, s2.io_req.latency)
                                      ELSE s2),
                err |-> "OK"]
          [] err = "INVALID" ->
               [st |-> warning(s2), err |-> "INVALID"]
          [] OTHER ->
               [st |-> insn_stall(s2), err |-> err]

\* data_req_aligned leaving the latency of a successful access unaccounted
data_req_aligned_drops_latency(st, addr, data_ptr, size, is_write, err, latency) ==
    LET s1 == [st EXCEPT !.io_req.latency = 0,
                         !.io_req.addr = addr,
                         !.io_req.size = size,
                         !.io_req.is_write = is_write,
                         !.io_req.opcode = IF is_write THEN "WRITE" ELSE "READ",
                         !.io_req.data = data_ptr]
        s2 == data_req_port(s1, err, latency)
    IN  CASE err = "OK" ->
               [st |-> s2, err |-> "OK"]
          [] err = "INVALID" ->
               [st |-> warning(s2), err |-> "INVALID"]
          [] OTHER ->
               [st |-> insn_stall(s2), err |-> err]

(***************************************************************************)
(* Lsu::data_req_aligned.  The result is the new state and the returned    *)
(* status.                                                                 *)
(***************************************************************************)
data_req_aligned(st, addr, data_ptr, size, is_write, err, latency) ==
    LET s1 == [st EXCEPT !.io_req.latency = 0,            \* req->init()
                         !.io_req.addr = addr,
                         !.io_req.size = size,
                         !.io_req.is_write = is_write,
                         !.io_req.opcode = IF is_write THEN "WRITE" ELSE "READ",
                         !.io_req.data = data_ptr]
        s2 == data_req_port(s1, err, latency)
    IN  CASE err = "OK" ->
               [st |-> IF s2.io_req.latency > 0
                       THEN stall_load_account(s2, s2.io_req.latency)
                       ELSE s2,
                err |-> "OK"]
          [] err = "INVALID" ->
               [st |-> warning(s2), err |-> "INVALID"]
          [] OTHER ->
               [st |-> insn_stall(s2), err |-> err]

\* data_misaligned_req measuring the first part from the start of the granule
data_misaligned_req_from_base(st, addr, data_ptr, size, is_write, err, latency) ==
    LET addr0 == AndAddrMask(addr)
        addr1 == AndAddrMask(addr + size - 1)
        s1 == event_misaligned_account(st, 1)
        size0 == addr1 - addr0
        size1 == size - size0
        s2 == [s1 EXCEPT !.lsu.misaligned_size = size1,
                         !.lsu.misaligned_data = data_ptr + size0,
                         !.lsu.misaligned_addr = addr1,
                         !.lsu.misaligned_is_write = is_write]
        r == data_req_aligned(s2, addr, data_ptr, size0, is_write, err, latency)
    IN  IF r.err = "OK"
        THEN [st |-> insn_hold(meth_set(r.st, "exec_misaligned")),
              err |-> "PENDING"]
        ELSE [st |-> force_warning(r.st), err |-> "INVALID"]

\* data_misaligned_req registering the deferred second half whatever the
\* first sub-access returned
data_misaligned_req_always_defers(st, addr, data_ptr, size, is_write, err, latency) ==
    LET addr1 == AndAddrMask(addr + size - 1)
        s1 == event_misaligned_account(st, 1)
        size0 == addr1 - addr
        size1 == size - size0
        s2 == [s1 EXCEPT !.lsu.misaligned_size = size1,
                         !.lsu.misaligned_data = data_ptr + size0,
                         !.lsu.misaligned_addr = addr1,
                         !.lsu.misaligned_is_write = is_write]
        r == data_req_aligned(s2, addr, data_ptr, size0, is_write, err, latency)
    IN  IF r.err = "OK"
        THEN [st |-> insn_hold(meth_set(r.st, "exec_misaligned")),
              err |-> "PENDING"]
        ELSE [st |-> insn_hold(meth_set(r.st, "exec_misaligned")),
              err |-> "INVALID"]

\* data_misaligned_req submitting the second sub-access in the same step
data_misaligned_req_same_step(st, addr, data_ptr, size, is_write, err, latency) ==
    LET addr1 == AndAddrMask(addr + size - 1)
        s1 == event_misaligned_account(st, 1)
        size0 == addr1 - addr
        size1 == size - size0
        s2 == [s1 EXCEPT !.lsu.misaligned_size = size1,
                         !.lsu.misaligned_data = data_ptr + size0,
                         !.lsu.misaligned_addr = addr1,
                         !.lsu.misaligned_is_write = is_write]
        r == data_req_aligned(s2, addr, data_ptr, size0, is_write, err, latency)
    IN  IF r.err = "OK"
        THEN data_req_aligned(r.st, addr1, data_ptr + size0, size1, is_write, err, latency)
        ELSE [st |-> force_warning(r.st), err |-> "INVALID"]

\* data_misaligned_req ending the first part one byte into the next granule
data_misaligned_req_long_first(st, addr, data_ptr, size, is_write, err, latency) ==
    LET addr1 == AndAddrMask(addr + size - 1)
        s1 == event_misaligned_account(st, 1)
        size0 == addr1 - addr + 1
        size1 == size - size0
        s2 == [s1 EXCEPT !.lsu.misaligned_size = size1,
                         !.lsu.misaligned_data = data_ptr + size0,
                         !.lsu.misaligned_addr = addr1 + 1,
                         !.lsu.misaligned_is_write = is_write]
        r == data_req_aligned(s2, addr, data_ptr, size0, is_write, err, latency)
    IN  IF r.err = "OK"
        THEN [st |-> insn_hold(meth_set(r.st, "exec_misaligned")),
              err |-> "PENDING"]
        ELSE [st |-> force_warning(r.st), err |-> "INVALID"]

(***************************************************************************)
(* Lsu::data_misaligned_req                                                *)
(***************************************************************************)
data_misaligned_req(st, addr, data_ptr, size, is_write, err, latency) ==
    LET addr1 == AndAddrMask(addr + size - 1)
        s1 == event_misaligned_account(st, 1)
        size0 == addr1 - addr
        size1 == size - size0
        s2 == [s1 EXCEPT !.lsu.misaligned_size = size1,
                         !.lsu.misaligned_data = data_ptr + size0,
                         !.lsu.misaligned_addr = addr1,
                         !.lsu.misaligned_is_write = is_write]
        r == data_req_aligned(s2, addr, data_ptr, size0, is_write, err, latency)
    IN  IF r.err = "OK"
        THEN [st |-> insn_hold(meth_set(r.st, "exec_misaligned")),
              err |-> "PENDING"]
        ELSE [st |-> force_warning(r.st), err |-> "INVALID"]

\* data_req taking addr + size for the last byte of the access
data_req_off_by_one(st, addr, data_ptr, size, is_write, err, latency) ==
    LET addr0 == AndAddrMask(addr)
        addr1 == AndAddrMask(addr + size)
    IN  IF addr0 = addr1
        THEN LET r == data_req_aligned(st, addr, data_ptr, size, is_write, err, latency)
             IN  [r EXCEPT !.st.obs.path = "aligned"]
        ELSE LET r == data_misaligned_req(st, addr, data_ptr, size, is_write, err, latency)
             IN  [r EXCEPT !.st.obs.path = "misaligned"]

(***************************************************************************)
(* Lsu::data_req                                                           *)
(***************************************************************************)
data_req(st, addr, data_ptr, size, is_write, err, latency) ==
    LET addr0 == AndAddrMask(addr)
        addr1 == AndAddrMask(addr + size - 1)
    IN  IF addr0 = addr1
        THEN LET r == data_req_aligned(st, addr, data_ptr, size, is_write, err, latency)
             IN  [r EXCEPT !.st.obs.path = "aligned"]
        ELSE LET r == data_misaligned_req(st, addr, data_ptr, size, is_write, err, latency)
             IN  [r EXCEPT !.st.obs.path = "misaligned"]

\* exec_misaligned without the load-event of the second access
exec_misaligned_no_event(st, err, latency) ==
    LET s1 == cycle_account(st)
        r == data_req_aligned(s1, s1.lsu.misaligned_addr, s1.lsu.misaligned_data,
                              s1.lsu.misaligned_size, s1.lsu.misaligned_is_write,
                              err, latency)
    IN  IF r.err = "OK"
        THEN switch_to_full_mode(stall_callback(r.st))
        ELSE warning(r.st)

\* exec_misaligned leaving the held mode before the resume action runs
exec_misaligned_switches_first(st, err, latency) ==
    LET s1 == cycle_account(event_load_account(st, 1))
        r == data_req_aligned(s1, s1.lsu.misaligned_addr, s1.lsu.misaligned_data,
                              s1.lsu.misaligned_size, s1.lsu.misaligned_is_write,
                              err, latency)
    IN  IF r.err = "OK"
        THEN stall_callback(switch_to_full_mode(r.st))
        ELSE warning(r.st)

(***************************************************************************)
(* Lsu::exec_misaligned                                                    *)
(***************************************************************************)
exec_misaligned(st, err, latency) ==
    LET s1 == cycle_account(event_load_account(st, 1))
        r == data_req_aligned(s1, s1.lsu.misaligned_addr, s1.lsu.misaligned_data,
                              s1.lsu.misaligned_size, s1.lsu.misaligned_is_write,
                              err, latency)
    IN  IF r.err = "OK"
        THEN switch_to_full_mode(stall_callback(r.st))
        ELSE warning(r.st)

(***************************************************************************)
(* Lsu::data_response                                                      *)
(***************************************************************************)
data_response(st, latency) ==
    LET s1 == stalled_dec(st)
        s2 == stall_load_account(s1, latency)
    IN  IF s2.lsu.misaligned_size = 0
        THEN stall_callback(s2)
        ELSE s2

(***************************************************************************)
(* Lsu::atomic.  fault is the translator's answer (true: translation       *)
(* failed); err, latency and value are the memory interface's answer,      *)
(* value being what it stores through the second data pointer.             *)
(***************************************************************************)
\* this->data.req(req) for an atomic request: on success the memory has
\* written the returned value through second_data
atomic_req_port(st, err, latency, value) ==
    LET s1 == data_req_port(st, err, latency)
    IN  IF err = "OK"
        THEN [s1 EXCEPT !.regfile[st.io_req.second_data \div GranuleSize] = value]
        ELSE s1

\* atomic leaving the returned value of a narrow access as the memory wrote it
atomic_no_sign_extend(st, addr, size, reg_in, reg_out, opcode, fault, err, latency, value) ==
    LET phys_addr == virt_to_phys(addr)
        s0 == [st EXCEPT !.obs.translate =
                   IF opcode = "LR" THEN "load_virt_to_phys" ELSE "store_virt_to_phys",
                         !.obs.fault = fault,
                         !.obs.phys_addr = IF fault THEN @ ELSE phys_addr]
        s1 == [s0 EXCEPT !.io_req.latency = 0,
                         !.io_req.addr = addr,
                         !.io_req.size = size,
                         !.io_req.opcode = opcode,
                         !.io_req.data = reg_ref(reg_in),
                         !.io_req.second_data = reg_ref(reg_out),
                         !.io_req.initiator = mhartid]
        s2 == atomic_req_port(s1, err, latency, value)
        s4 == insn_stall(s2)
    IN  CASE fault -> s0
          [] err = "OK" ->
               IF s2.io_req.latency > 0
               THEN stall_load_account(s2, s2.io_req.latency)
               ELSE s2
          [] err = "INVALID" -> warning(s2)
          [] OTHER ->
               IF size # ISS_REG_WIDTH \div 8
               THEN [s4 EXCEPT !.lsu.stall_callback = "load_signed_resume",
                               !.lsu.stall_reg = reg_out,
                               !.lsu.stall_size = size]
               ELSE [s4 EXCEPT !.lsu.stall_callback = "store_resume"]

\* atomic going on to submit the request after a failed translation
atomic_ignores_fault(st, addr, size, reg_in, reg_out, opcode, fault, err, latency, value) ==
    LET phys_addr == virt_to_phys(addr)
        s0 == [st EXCEPT !.obs.translate =
                   IF opcode = "LR" THEN "load_virt_to_phys" ELSE "store_virt_to_phys",
                         !.obs.fault = fault,
                         !.obs.phys_addr = IF fault THEN @ ELSE phys_addr]
        s1 == [s0 EXCEPT !.io_req.latency = 0,
                         !.io_req.addr = addr,
                         !.io_req.size = size,
                         !.io_req.opcode = opcode,
                         !.io_req.data = reg_ref(reg_in),
                         !.io_req.second_data = reg_ref(reg_out),
                         !.io_req.initiator = mhartid]
        s2 == atomic_req_port(s1, err, latency, value)
        s3 == IF size # ISS_REG_WIDTH \div 8
              THEN [s2 EXCEPT !.regfile[reg_out] =
                        iss_get_signed_value(s2.regfile[reg_out], size * 8)]
              ELSE s2
        s4 == insn_stall(s2)
    IN  CASE err = "OK" ->
               IF s3.io_req.latency > 0
               THEN stall_load_account(s3, s3.io_req.latency)
               ELSE s3
          [] err = "INVALID" -> warning(s2)
          [] OTHER ->
               IF size # ISS_REG_WIDTH \div 8
               THEN [s4 EXCEPT !.lsu.stall_callback = "load_signed_resume",
                               !.lsu.stall_reg = reg_out,
                               !.lsu.stall_size = size]
               ELSE [s4 EXCEPT !.lsu.stall_callback = "store_resume"]

\* atomic without the return of the IO_REQ_INVALID branch: the rejected
\* access goes on to suspend the instruction and to select a resume action
atomic_invalid_falls_through(st, addr, size, reg_in, reg_out, opcode, fault, err, latency, value) ==
    LET phys_addr == virt_to_phys(addr)
        s0 == [st EXCEPT !.obs.translate =
                   IF opcode = "LR" THEN "load_virt_to_phys" ELSE "store_virt_to_phys",
                         !.obs.fault = fault,
                         !.obs.phys_addr = IF fault THEN @ ELSE phys_addr]
        s1 == [s0 EXCEPT !.io_req.latency = 0,
                         !.io_req.addr = addr,
                         !.io_req.size = size,
                         !.io_req.opcode = opcode,
                         !.io_req.data = reg_ref(reg_in),
                         !.io_req.second_data = reg_ref(reg_out),
                         !.io_req.initiator = mhartid]
        s2 == atomic_req_port(s1, err, latency, value)
        s3 == IF size # ISS_REG_WIDTH \div 8
              THEN [s2 EXCEPT !.regfile[reg_out] =
                        iss_get_signed_value(s2.regfile[reg_out], size * 8)]
              ELSE s2
        s4 == insn_stall(IF err = "INVALID" THEN warning(s2) ELSE s2)
    IN  CASE fault -> s0
          [] err = "OK" ->
               IF s3.io_req.latency > 0
               THEN stall_load_account(s3, s3.io_req.latency)
               ELSE s3
          [] OTHER ->
               IF size # ISS_REG_WIDTH \div 8
               THEN [s4 EXCEPT !.lsu.stall_callback = "load_signed_resume",
                               !.lsu.stall_reg = reg_out,
                               !.lsu.stall_size = size]
               ELSE [s4 EXCEPT !.lsu.stall_callback = "store_resume"]

\* atomic submitting the translated address
atomic_submits_phys_addr(st, addr, size, reg_in, reg_out, opcode, fault, err, latency, value) ==
    LET phys_addr == virt_to_phys(addr)
        s0 == [st EXCEPT !.obs.translate =
                   IF opcode = "LR" THEN "load_virt_to_phys" ELSE "store_virt_to_phys",
                         !.obs.fault = fault,
                         !.obs.phys_addr = IF fault THEN @ ELSE phys_addr]
        s1 == [s0 EXCEPT !.io_req.latency = 0,            \* req->init()
                         !.io_req.addr = phys_addr,
                         !.io_req.size = size,
                         !.io_req.opcode = opcode,
                         !.io_req.data = reg_ref(reg_in),
                         !.io_req.second_data = reg_ref(reg_out),
                         !.io_req.initiator = mhartid]
        s2 == atomic_req_port(s1, err, latency, value)
        s3 == IF size # ISS_REG_WIDTH \div 8
              THEN [s2 EXCEPT !.regfile[reg_out] =
                        iss_get_signed_value(s2.regfile[reg_out], size * 8)]
              ELSE s2
        s4 == insn_stall(s2)
    IN  CASE fault -> s0
          [] err = "OK" ->
               IF s3.io_req.latency > 0
               THEN stall_load_account(s3, s3.io_req.latency)
               ELSE s3
          [] err = "INVALID" -> warning(s2)
          [] OTHER ->
               IF size # ISS_REG_WIDTH \div 8
               THEN [s4 EXCEPT !.lsu.stall_callback = "load_signed_resume",
                               !.lsu.stall_reg = reg_out,
                               !.lsu.stall_size = size]
               ELSE [s4 EXCEPT !.lsu.stall_callback = "store_resume"]


atomic(st, addr, size, reg_in, reg_out, opcode, fault, err, latency, value) ==
    LET phys_addr == virt_to_phys(addr)
        s0 == [st EXCEPT !.obs.translate =
                   IF opcode = "LR" THEN "load_virt_to_phys" ELSE "store_virt_to_phys",
                         !.obs.fault = fault,
                         !.obs.phys_addr = IF fault THEN @ ELSE phys_addr]
        s1 == [s0 EXCEPT !.io_req.latency = 0,            \* req->init()
                         !.io_req.addr = addr,
                         !.io_req.size = size,
                         !.io_req.opcode = opcode,
                         !.io_req.data = reg_ref(reg_in),
                         !.io_req.second_data = reg_ref(reg_out),
                         !.io_req.initiator = mhartid]
        s2 == atomic_req_port(s1, err, latency, value)
        s3 == IF size # ISS_REG_WIDTH \div 8
              THEN [s2 EXCEPT !.regfile[reg_out] =
                        iss_get_signed_value(s2.regfile[reg_out], size * 8)]
              ELSE s2
        s4 == insn_stall(s2)
    IN  CASE fault -> s0
          [] err = "OK" ->
               IF s3.io_req.latency > 0
               THEN stall_load_account(s3, s3.io_req.latency)
               ELSE s3
          [] err = "INVALID" -> warning(s2)
          [] OTHER ->
               IF size # ISS_REG_WIDTH \div 8
               THEN [s4 EXCEPT !.lsu.stall_callback = "load_signed_resume",
                               !.lsu.stall_reg = reg_out,
                               !.lsu.stall_size = size]
               ELSE [s4 EXCEPT !.lsu.stall_callback = "store_resume"]

(***************************************************************************)
(* Power tables (engine/src/power/power_table.cpp).  A table is built from *)
(* a configuration: a power value for every temperature, voltage and       *)
(* frequency listed, or one value "any" for all frequencies of a voltage.  *)
(* Values are kept as exact fractions [num, den].                          *)
(***************************************************************************)
PowerKeys == 1 .. MaxKey
PowerQueries == 0 .. (MaxKey + 1)
KeySets == (SUBSET PowerKeys) \ {{}}

\* the configurations: every non-empty set of temperatures and of voltages;
\* frequencies listed without "any", or "any" alone, or "any" beside every
\* frequency
PowerConfigs ==
    {[temps |-> T, volts |-> V, freqs |-> F, any |-> FALSE] :
        T \in KeySets, V \in KeySets, F \in KeySets}
    \cup
    {[temps |-> T, volts |-> V, freqs |-> F, any |-> TRUE] :
        T \in KeySets, V \in KeySets, F \in {{}, PowerKeys}}

\* the power value the configuration gives at a point, and under "any"
ConfigValue(temp, volt, freq) == 100 * temp + 10 * volt + freq
ConfigAnyValue(temp, volt) == 100 * temp + 10 * volt + 9

\* std::sort of the entries by ascending key
RECURSIVE SortedKeys(_)
SortedKeys(K) ==
    IF K = {}
    THEN <<>>
    ELSE LET m == CHOOSE k \in K : \A j \in K : k <= j
         IN  <<m>> \o SortedKeys(K \ {m})

\* vp::PowerLinearFreqTable::PowerLinearFreqTable
PowerLinearFreqTable(freq, value) == [freq |-> freq, value |-> value]

\* vp::PowerLinearVoltTable::PowerLinearVoltTable; any is <<>> for NULL
PowerLinearVoltTable(temp, volt, config) ==
    LET freqs == SortedKeys(config.freqs)
    IN  [volt |-> volt,
         any |-> IF config.any
                 THEN <<PowerLinearFreqTable(0, ConfigAnyValue(temp, volt))>>
                 ELSE <<>>,
         freq_tables |-> [i \in 1 .. Len(freqs) |->
                            PowerLinearFreqTable(freqs[i], ConfigValue(temp, volt, freqs[i]))]]

\* vp::PowerLinearTempTable::PowerLinearTempTable
PowerLinearTempTable(temp, config) ==
    LET volts == SortedKeys(config.volts)
    IN  [temp |-> temp,
         volt_tables |-> [i \in 1 .. Len(volts) |->
                            PowerLinearVoltTable(temp, volts[i], config)]]

\* vp::PowerLinearTable::PowerLinearTable
PowerLinearTable(config) ==
    LET temps == SortedKeys(config.temps)
    IN  [temp_tables |-> [i \in 1 .. Len(temps) |-> PowerLinearTempTable(temps[i], config)]]

\* a value read from an entry, and the interpolation
\* (value_at_high - value_at_low) * ratio + value_at_low with
\* ratio = (x - low) / (high - low)
Exact(v) == [num |-> v, den |-> 1]

Interpolate(value_at_low, value_at_high, x, low, high) ==
    [num |-> (value_at_high.num * value_at_low.den - value_at_low.num * value_at_high.den)
                 * (x - low)
             + value_at_low.num * value_at_high.den * (high - low),
     den |-> value_at_low.den * value_at_high.den * (high - low)]

\* the limits taken when no lower or no upper entry was found
TakeLimits(r) ==
    LET high_index == IF r.high = -1 THEN r.low ELSE r.high
        low_index == IF r.low = -1 THEN high_index ELSE r.low
    IN  [low |-> low_index, high |-> high_index]

\* the loop of PowerLinearVoltTable::get testing the upper entry alone
RECURSIVE freq_scan_no_exact(_, _, _, _)
freq_scan_no_exact(freq_tables, frequency, i, low_index) ==
    IF i >= Len(freq_tables)
    THEN [low |-> low_index, high |-> -1]
    ELSE IF freq_tables[i + 1].freq > frequency
         THEN [low |-> low_index, high |-> i]
         ELSE freq_scan_no_exact(freq_tables, frequency, i + 1, i)

\* the loop of vp::PowerLinearVoltTable::get from index i on
RECURSIVE freq_scan(_, _, _, _)
freq_scan(freq_tables, frequency, i, low_index) ==
    IF i >= Len(freq_tables)
    THEN [low |-> low_index, high |-> -1]
    ELSE IF freq_tables[i + 1].freq = frequency
         THEN [low |-> i, high |-> i]
         ELSE IF freq_tables[i + 1].freq > frequency
              THEN [low |-> low_index, high |-> i]
              ELSE freq_scan(freq_tables, frequency, i + 1, i)

\* vp::PowerLinearVoltTable::get.  The result is the value returned and the
\* indices the lookup selected
PowerLinearVoltTable_get(vt, frequency) ==
    IF vt.any # <<>>
    THEN [any |-> TRUE, low |-> -1, high |-> -1, value |-> Exact(vt.any[1].value)]
    ELSE LET sel == TakeLimits(freq_scan(vt.freq_tables, frequency, 0, -1))
             lo == vt.freq_tables[sel.low + 1]
             hi == vt.freq_tables[sel.high + 1]
         IN  [any |-> FALSE, low |-> sel.low, high |-> sel.high,
              value |-> IF sel.high = sel.low
                        THEN Exact(lo.value)
                        ELSE Interpolate(Exact(lo.value), Exact(hi.value),
                                         frequency, lo.freq, hi.freq)]

\* the loop of vp::PowerLinearTempTable::get from index i on
RECURSIVE volt_scan(_, _, _, _)
volt_scan(volt_tables, volt, i, low_index) ==
    IF i >= Len(volt_tables)
    THEN [low |-> low_index, high |-> -1]
    ELSE IF volt_tables[i + 1].volt = volt
         THEN [low |-> i, high |-> i]
         ELSE IF volt_tables[i + 1].volt > volt
              THEN [low |-> low_index, high |-> i]
              ELSE volt_scan(volt_tables, volt, i + 1, i)

\* vp::PowerLinearTempTable::get
PowerLinearTempTable_get(tt, volt, frequency) ==
    LET sel == TakeLimits(volt_scan(tt.volt_tables, volt, 0, -1))
        lo == tt.volt_tables[sel.low + 1]
        hi == tt.volt_tables[sel.high + 1]
        at_low == PowerLinearVoltTable_get(lo, frequency)
        at_high == PowerLinearVoltTable_get(hi, frequency)
    IN  [low |-> sel.low, high |-> sel.high, at_low |-> at_low, at_high |-> at_high,
         value |-> IF sel.high = sel.low
                   THEN at_low.value
                   ELSE Interpolate(at_low.value, at_high.value, volt, lo.volt, hi.volt)]

\* the loop of vp::PowerLinearTable::get from index i on
RECURSIVE temp_scan(_, _, _, _)
temp_scan(temp_tables, temp, i, low_temp_index) ==
    IF i >= Len(temp_tables)
    THEN [low |-> low_temp_index, high |-> -1]
    ELSE IF temp_tables[i + 1].temp = temp
         THEN [low |-> i, high |-> i]
         ELSE IF temp_tables[i + 1].temp > temp
              THEN [low |-> low_temp_index, high |-> i]
              ELSE temp_scan(temp_tables, temp, i + 1, i)

\* vp::PowerLinearTable::get
PowerLinearTable_get(table, temp, volt, frequency) ==
    LET sel == TakeLimits(temp_scan(table.temp_tables, temp, 0, -1))
        lo == table.temp_tables[sel.low + 1]
        hi == table.temp_tables[sel.high + 1]
        at_low == PowerLinearTempTable_get(lo, volt, frequency)
        at_high == PowerLinearTempTable_get(hi, volt, frequency)
    IN  [low |-> sel.low, high |-> sel.high, at_low |-> at_low, at_high |-> at_high,
         value |-> IF sel.high = sel.low
                   THEN at_low.value
                   ELSE Interpolate(at_low.value, at_high.value, temp, lo.temp, hi.temp)]

\* no power table is in use
NoPower == [table |-> <<>>, called |-> FALSE, temp |-> 0, volt |-> 0, frequency |-> 0,
            result |-> <<>>]

(***************************************************************************)
(* Observation record: what the last handler did (reset at every step) and *)
(* what happened to the transaction of the current instruction (reset when *)
(* an instruction is issued).                                              *)
(***************************************************************************)
NoArgs == [addr |-> 0, size |-> 0, is_write |-> FALSE, data |-> 0, opcode |-> "none"]

\* op, answer, nreq, resumed, action, warnings, forced and active (the
\* argument of reset) describe the last handler alone; the other fields
\* describe the current instruction
StepObs(o, op) ==
    [o EXCEPT !.op = op, !.answer = "none", !.nreq = 0, !.resumed = 0,
              !.action = "none", !.warnings = 0, !.forced = 0, !.active = FALSE]

InsnObs(op, args) ==
    [op |-> op, answer |-> "none", nreq |-> 0, resumed |-> 0, action |-> "none",
     warnings |-> 0, forced |-> 0, active |-> FALSE,
     args |-> args, ret |-> "none", path |-> "none", translate |-> "none",
     terminated |-> 0, txn_pending |-> FALSE, txn_resumes |-> 0,
     cycle |-> 0, resume_cycle |-> 0, resume_held |-> FALSE, fault |-> FALSE,
     phys_addr |-> 0]

NoTiming == [stall_load |-> 0, event_load |-> 0, event_misaligned |-> 0, cycles |-> 0]

\* the pipeline issues an instruction: the accounts of the model restart and
\* the registers are zero (a load's destination is zeroed before the access)
Issue(st, op, args) ==
    [st EXCEPT !.obs = InsnObs(op, args), !.timing = NoTiming,
               !.regfile = [r \in Regs |-> 0]]

\* a handler runs in a later cycle
Later(st, op) == [st EXCEPT !.obs = [StepObs(st.obs, op) EXCEPT !.cycle = @ + 1]]

Commit(result) ==
    \E st \in {result} :
    /\ lsu' = st.lsu
    /\ io_req' = st.io_req
    /\ exec' = st.exec
    /\ timing' = st.timing
    /\ regfile' = st.regfile
    /\ mem' = st.mem
    /\ obs' = st.obs
    /\ power' = power

(***************************************************************************)
(* The pipeline executes an instruction only when no instruction is        *)
(* suspended or held.                                                      *)
(***************************************************************************)
CanIssue == exec.stalled = 0 /\ ~exec.held

\* The state after Lsu::Lsu, Lsu::build and the initial reset(true).  The
\* constructor leaves misaligned_data, misaligned_addr, misaligned_is_write,
\* stall_callback, stall_reg and stall_size uninitialised; each is written
\* before it is first read (TypeOK checks it for stall_callback), so the
\* value given here is never observed.
LsuInit ==
    /\ lsu = [elw_stalled |-> FALSE, misaligned_size |-> 0, misaligned_data |-> 0,
              misaligned_addr |-> 0, misaligned_is_write |-> FALSE,
              stall_callback |-> "unset", stall_reg |-> 0, stall_size |-> 0]
    /\ io_req = [addr |-> 0, size |-> 0, is_write |-> FALSE, opcode |-> "READ",
                 data |-> 0, second_data |-> 0, initiator |-> 0, latency |-> 0]
    /\ exec = [stalled |-> 0, held |-> FALSE, instr_event |-> "none"]
    /\ timing = NoTiming
    /\ regfile = [r \in Regs |-> 0]
    /\ mem = [outstanding |-> 0]
    /\ obs = InsnObs("init", NoArgs)

\* the LSU specifications use no power table
Init == LsuInit /\ power = NoPower

\* a load instruction: Lsu::data_req for a read into a register; on PENDING
\* the plain-load-complete action is selected
Load(addr, size, reg, err, latency) ==
    /\ CanIssue
    /\ LET args == [addr |-> addr, size |-> size, is_write |-> FALSE, data |-> reg_ref(reg),
                    opcode |-> "READ"]
           r == data_req(Issue(State, "load", args), addr, reg_ref(reg), size, FALSE, err, latency)
           s1 == IF r.err = "PENDING"
                 THEN [r.st EXCEPT !.lsu.stall_callback = "load_resume"]
                 ELSE r.st
       IN  Commit([s1 EXCEPT !.obs.ret = r.err,
                             !.obs.txn_pending = (r.err = "PENDING")])

\* a store instruction: Lsu::data_req for a write from a register; on
\* PENDING the plain-store-complete action is selected
Store(addr, size, reg, err, latency) ==
    /\ CanIssue
    /\ LET args == [addr |-> addr, size |-> size, is_write |-> TRUE, data |-> reg_ref(reg),
                    opcode |-> "WRITE"]
           r == data_req(Issue(State, "store", args), addr, reg_ref(reg), size, TRUE, err, latency)
           s1 == IF r.err = "PENDING"
                 THEN [r.st EXCEPT !.lsu.stall_callback = "store_resume"]
                 ELSE r.st
       IN  Commit([s1 EXCEPT !.obs.ret = r.err,
                             !.obs.txn_pending = (r.err = "PENDING")])

\* an atomic instruction: Lsu::atomic.  The registers hold what the earlier
\* atomic instructions left in them
Atomic(addr, size, reg_in, reg_out, opcode, fault, err, latency, value) ==
    /\ CanIssue
    /\ LET args == [addr |-> addr, size |-> size, is_write |-> FALSE, data |-> reg_ref(reg_in),
                    opcode |-> opcode]
           s0 == [Issue(State, "atomic", args) EXCEPT !.regfile = regfile]
           s1 == atomic(s0, addr, size, reg_in, reg_out, opcode, fault, err, latency, value)
       IN  Commit([s1 EXCEPT !.obs.path = "atomic",
                             !.obs.txn_pending = (s1.exec.stalled > 0)])

\* the delayed event registered by data_misaligned_req fires, once, one
\* cycle after it was registered
ExecMisaligned(err, latency) ==
    /\ exec.instr_event = "exec_misaligned"
    /\ exec.stalled = 0
    /\ LET s0 == meth_set(Later(State, "exec_misaligned"), "none")
       IN  Commit(exec_misaligned(s0, err, latency))

\* the memory interface answers a request it had accepted; for an atomic
\* request it has stored the returned value through second_data
DataResponse(latency, value) ==
    /\ mem.outstanding > 0
    /\ LET s0 == Later(State, "data_response")
           s1 == [s0 EXCEPT !.mem.outstanding = @ - 1]
           s2 == IF s1.io_req.opcode \in AtomicOpcodes
                 THEN [s1 EXCEPT !.regfile[s1.io_req.second_data \div GranuleSize] = value]
                 ELSE s1
       IN  Commit(data_response(s2, latency))

\* the core is reset between two instructions
Reset(active) ==
    /\ CanIssue
    /\ mem.outstanding = 0
    /\ Commit(reset([State EXCEPT !.obs = [StepObs(obs, "reset") EXCEPT !.active = active]],
                    active))

\* the wait-for-event load, which is outside lsu.cpp, marks the LSU stalled
\* (the flag that elw_resume and reset clear); only that write is modelled
ElwStall ==
    /\ CanIssue
    /\ ~lsu.elw_stalled
    /\ Commit([State EXCEPT !.lsu.elw_stalled = TRUE, !.obs = StepObs(obs, "elw")])

\* the latency the memory interface fills in when it answers err
LatenciesOf(err) == IF err = "OK" THEN Latencies ELSE {0}

\* the memory interface's answer is read only if the translation succeeded
AnswersOf(fault) == IF fault THEN {"OK"} ELSE Status

Next ==
    \/ \E addr \in Addrs, size \in Sizes, err \in Status :
          \E latency \in LatenciesOf(err) : Load(addr, size, DstReg, err, latency)
    \/ \E addr \in Addrs, size \in Sizes, err \in Status :
          \E latency \in LatenciesOf(err) : Store(addr, size, SrcReg, err, latency)
    \/ \E size \in AtomicSizes, opcode \in AtomicOpcodes, fault \in BOOLEAN, value \in MemValues :
          \E err \in AnswersOf(fault) : \E latency \in LatenciesOf(err) :
             Atomic(0, size, SrcReg, DstReg, opcode, fault, err, latency, value)
    \/ \E err \in Status : \E latency \in LatenciesOf(err) : ExecMisaligned(err, latency)
    \/ \E latency \in Latencies, value \in MemValues : DataResponse(latency, value)
    \/ \E active \in BOOLEAN : Reset(active)

Spec == Init /\ [][Next]_vars

(***************************************************************************)
(* SpecSplit: accesses of any address and size of a range, with the        *)
(* handlers they lead to.  Misaligned accesses may follow each other; the  *)
(* run ends with the first aligned one.                                    *)
(***************************************************************************)
SplitIssue == obs.path \in {"none", "misaligned"}

NextSplit ==
    \/ \E addr \in SplitAddrs, size \in SplitSizes, err \in Status :
          \E latency \in LatenciesOf(err) :
             SplitIssue /\ Load(addr, size, DstReg, err, latency)
    \/ \E addr \in SplitAddrs, size \in SplitSizes, err \in Status :
          \E latency \in LatenciesOf(err) :
             SplitIssue /\ Store(addr, size, SrcReg, err, latency)
    \/ \E err \in Status : \E latency \in LatenciesOf(err) : ExecMisaligned(err, latency)
    \/ \E latency \in Latencies, value \in MemValues : DataResponse(latency, value)

SpecSplit == Init /\ [][NextSplit]_vars

(***************************************************************************)
(* SpecReset: stores of any address and size of a range, with the handlers *)
(* they lead to; between them the core may be reset and the LSU may be     *)
(* marked stalled on a wait-for-event.                                     *)
(***************************************************************************)
NextReset ==
    \/ \E addr \in SplitAddrs, size \in SplitSizes, err \in Status :
          \E latency \in LatenciesOf(err) :
             SplitIssue /\ Store(addr, size, SrcReg, err, latency)
    \/ \E err \in Status : \E latency \in LatenciesOf(err) : ExecMisaligned(err, latency)
    \/ \E latency \in Latencies, value \in MemValues : DataResponse(latency, value)
    \/ \E active \in BOOLEAN : SplitIssue /\ Reset(active)
    \/ SplitIssue /\ ElwStall

SpecReset == Init /\ [][NextReset]_vars

(***************************************************************************)
(* SpecAtomic: atomic instructions at several addresses, with the          *)
(* responses of the memory interface and resets of the core.               *)
(***************************************************************************)
NextAtomic ==
    \/ \E addr \in AtomicAddrs, size \in AtomicSizes, opcode \in AtomicOpcodes,
          fault \in BOOLEAN, value \in MemValues :
          \E err \in AnswersOf(fault) : \E latency \in LatenciesOf(err) :
             Atomic(addr, size, SrcReg, DstReg, opcode, fault, err, latency, value)
    \/ \E latency \in Latencies, value \in MemValues : DataResponse(latency, value)
    \/ \E active \in BOOLEAN : Reset(active)

SpecAtomic == Init /\ [][NextAtomic]_vars

(***************************************************************************)
(* SpecLive: Spec with the scheduling the collaborators guarantee.  The    *)
(* event scheduler fires a registered delayed callback one cycle later,    *)
(* and the memory interface answers every request it has accepted.         *)
(* Nothing obliges the pipeline to issue a further instruction.            *)
(***************************************************************************)
Fairness ==
    /\ WF_vars(\E err \in Status : \E latency \in LatenciesOf(err) :
                  ExecMisaligned(err, latency))
    /\ WF_vars(\E latency \in Latencies, value \in MemValues :
                  DataResponse(latency, value))

SpecLive == Init /\ [][Next]_vars /\ Fairness

(***************************************************************************)
(* SpecPower: a power table built from any configuration of a range, and   *)
(* one lookup in it.  A lookup leaves the table as it is, so a second one  *)
(* would find what a first one finds.                                      *)
(***************************************************************************)
InitPower ==
    /\ LsuInit
    /\ power \in {[NoPower EXCEPT !.table = PowerLinearTable(config)] :
                     config \in PowerConfigs}

PowerGet(temp, volt, frequency) ==
    /\ ~power.called
    /\ power' = [power EXCEPT !.called = TRUE,
                              !.temp = temp,
                              !.volt = volt,
                              !.frequency = frequency,
                              !.result = PowerLinearTable_get(power.table, temp, volt, frequency)]
    /\ UNCHANGED <<lsu, io_req, exec, timing, regfile, mem, obs>>

NextPower ==
    \E temp \in PowerQueries, volt \in PowerQueries, frequency \in PowerQueries :
        PowerGet(temp, volt, frequency)

SpecPower == InitPower /\ [][NextPower]_vars

(***************************************************************************)
(* Vocabulary of the properties.                                           *)
(***************************************************************************)
\* nothing of the current transaction is still to come: no response is owed
\* by the memory interface and no delayed event is registered
Quiescent == mem.outstanding = 0 /\ exec.instr_event = "none"

\* the current transaction was answered Pending (or suspended by atomic) and
\* its resume action has not been invoked
Unresolved == obs.txn_pending /\ obs.txn_resumes = 0

\* the current transaction is a plain single-part one
SinglePart == obs.path \in {"aligned", "atomic"}

GranuleOf(a) == a \div GranuleSize

(***************************************************************************)
(* C1: every Pending returned by data_req and every suspension made by     *)
(* atomic is followed by exactly one invocation of the resume action:      *)
(* never two, and once the memory interface has answered and no delayed    *)
(* event remains, not zero.  The unsupported case, a second half that is   *)
(* not answered with immediate success and leaves the instruction held, is *)
(* set aside.                                                              *)
(***************************************************************************)
C1_ExactlyOneResume ==
    /\ obs.txn_resumes <= 1
    /\ (obs.txn_pending /\ Quiescent /\ ~exec.held) => obs.txn_resumes = 1

(***************************************************************************)
(* C2: at most one transaction is in flight: no submission is accepted     *)
(* (handed to the memory interface, overwriting io_req and the resume      *)
(* selection) while the previous transaction is unresolved.                *)
(***************************************************************************)
C2_OneInFlight ==
    [][(obs'.op \in {"load", "store", "atomic"} /\ obs'.nreq > 0) => ~Unresolved]_vars

(***************************************************************************)
(* C3: data_response invokes the resume action if and only if the          *)
(* remaining size is zero, and the remaining size is zero during every     *)
(* plain single-part transaction.                                          *)
(***************************************************************************)
C3_ResumeIffNoSecondHalf ==
    /\ obs.op = "data_response" => (obs.resumed = 1 <=> lsu.misaligned_size = 0)
    /\ SinglePart => lsu.misaligned_size = 0

(***************************************************************************)
(* C4: for an access that crosses exactly one granule boundary,            *)
(* data_misaligned_req submits the first sub-access (a, size0) and saves   *)
(* the second one (a1, size1), where a1 is the first address of the next   *)
(* granule, size0 = a1 - a, size1 = s - size0, both are at least 1, the    *)
(* saved buffer offset is size0 and the saved direction is the original.   *)
(***************************************************************************)
CrossesOne(a, s) == GranuleOf(a + s - 1) = GranuleOf(a) + 1

C4_SplitArithmetic ==
    (/\ obs.op \in {"load", "store"}
     /\ obs.path = "misaligned"
     /\ CrossesOne(obs.args.addr, obs.args.size)) =>
        LET a == obs.args.addr
            s == obs.args.size
            a1 == (GranuleOf(a) + 1) * GranuleSize
            size0 == io_req.size
            size1 == lsu.misaligned_size
        IN  /\ io_req.addr = a
            /\ io_req.data = obs.args.data
            /\ io_req.is_write = obs.args.is_write
            /\ lsu.misaligned_addr = a1
            /\ size0 = a1 - a
            /\ size1 = s - size0
            /\ size0 + size1 = s
            /\ size0 >= 1
            /\ size1 >= 1
            /\ lsu.misaligned_data = obs.args.data + size0
            /\ lsu.misaligned_is_write = obs.args.is_write

\* a 4-byte store at the last byte of a granule was split into 1 + 3 bytes
C4_Witness ==
    /\ obs.op = "store"
    /\ obs.path = "misaligned"
    /\ obs.args.addr = GranuleSize - 1
    /\ obs.args.size = GranuleSize
    /\ io_req.size = 1
    /\ lsu.misaligned_size = GranuleSize - 1
    /\ lsu.misaligned_is_write

(***************************************************************************)
(* C5: data_req takes the aligned path if and only if the first and the    *)
(* last byte of the access lie in the same granule, and the misaligned     *)
(* path otherwise; an access that crosses no boundary makes exactly one    *)
(* submission and leaves misaligned_size, misaligned_addr, misaligned_data *)
(* and misaligned_is_write as they were.                                   *)
(***************************************************************************)
C5_Routing ==
    [][obs'.op \in {"load", "store"} =>
          LET a == obs'.args.addr
              s == obs'.args.size
              same == GranuleOf(a) = GranuleOf(a + s - 1)
          IN  /\ obs'.path = "aligned" <=> same
              /\ obs'.path = "misaligned" <=> ~same
              /\ same => /\ obs'.nreq = 1
                          /\ lsu'.misaligned_size = lsu.misaligned_size
                          /\ lsu'.misaligned_addr = lsu.misaligned_addr
                          /\ lsu'.misaligned_data = lsu.misaligned_data
                          /\ lsu'.misaligned_is_write = lsu.misaligned_is_write]_vars

\* an aligned load was submitted while the record of an earlier split
\* access was still in place
C5_Witness ==
    /\ obs.op = "load"
    /\ obs.path = "aligned"
    /\ obs.nreq = 1
    /\ lsu.misaligned_size > 0
    /\ lsu.misaligned_is_write

(***************************************************************************)
(* C6: for a misaligned access whose two sub-accesses both succeed at      *)
(* once, one misaligned-event is accounted at submission and one           *)
(* load-event in the deferred second half, and the resume action is        *)
(* invoked exactly once, in the deferred second half, at least one cycle   *)
(* after data_req returned Pending and never in the submitting step.       *)
(***************************************************************************)
C6_MisalignedBothOk ==
    (obs.path = "misaligned" /\ obs.ret = "PENDING") =>
        /\ timing.event_misaligned = 1
        /\ obs.op \in {"load", "store"} =>
              /\ obs.txn_resumes = 0
              /\ timing.event_load = 0
              /\ exec.instr_event = "exec_misaligned"
        /\ (obs.op = "exec_misaligned" /\ obs.answer = "OK") =>
              /\ timing.event_load = 1
              /\ obs.resumed = 1
              /\ obs.txn_resumes = 1
              /\ obs.resume_cycle >= 1
              /\ obs.resume_cycle = obs.cycle

\* the second half of a misaligned 4-byte store (1 + 3 bytes) has succeeded
C6_Witness ==
    /\ obs.op = "exec_misaligned"
    /\ obs.answer = "OK"
    /\ obs.path = "misaligned"
    /\ obs.args.is_write
    /\ io_req.size = GranuleSize - 1
    /\ obs.action = "store_resume"
    /\ obs.txn_resumes = 1

(***************************************************************************)
(* C7: whenever data_req returns Rejected, on either path, the instruction *)
(* is neither suspended nor held, no deferred callback is registered and   *)
(* no request is outstanding at the memory interface.                      *)
(***************************************************************************)
C7_RejectedIsIdle ==
    (obs.op \in {"load", "store"} /\ obs.ret = "INVALID") =>
        /\ exec.stalled = 0
        /\ ~exec.held
        /\ exec.instr_event = "none"
        /\ mem.outstanding = 0

(***************************************************************************)
(* C8: an aligned access that the memory interface rejects returns         *)
(* Rejected with exactly one diagnostic, leaves the pipeline's suspension  *)
(* state as it was, accounts no latency, leaves nothing outstanding and    *)
(* never has the resume action invoked.                                    *)
(***************************************************************************)
C8_AlignedRejected ==
    [][/\ (obs'.op \in {"load", "store"} /\ obs'.path = "aligned"
                                         /\ obs'.answer = "INVALID") =>
             /\ obs'.ret = "INVALID"
             /\ obs'.nreq = 1
             /\ obs'.warnings = 1
             /\ exec' = exec
             /\ timing'.stall_load = 0
             /\ mem'.outstanding = mem.outstanding
             /\ obs'.resumed = 0
       /\ (obs'.path = "aligned" /\ obs'.ret = "INVALID") =>
             /\ obs'.txn_resumes = 0
             /\ mem'.outstanding = 0]_vars

\* an aligned load has been rejected
C8_Witness ==
    /\ obs.op = "load"
    /\ obs.path = "aligned"
    /\ obs.answer = "INVALID"
    /\ obs.ret = "INVALID"
    /\ obs.warnings = 1

(***************************************************************************)
(* C9 as stated: for an aligned 4-byte load answered with immediate        *)
(* success and zero latency, load_resume is invoked within the same step,  *)
(* the instruction is terminated and not suspended.                        *)
(***************************************************************************)
AlignedLoadOk ==
    /\ obs.op = "load"
    /\ obs.path = "aligned"
    /\ obs.args.size = GranuleSize
    /\ obs.answer = "OK"
    /\ io_req.latency = 0

C9_ResumeFiresSynchronously ==
    AlignedLoadOk =>
        /\ obs.resumed = 1
        /\ obs.action = "load_resume"
        /\ obs.terminated = 1
        /\ exec.stalled = 0

(***************************************************************************)
(* C9 as amended: for an aligned 4-byte load answered with immediate       *)
(* success and zero latency, data_req returns success within the same      *)
(* step after one submission; no resume action is invoked and the LSU does *)
(* not terminate the instruction itself; the instruction is not suspended  *)
(* or held, no latency is accounted and nothing is left outstanding.       *)
(***************************************************************************)
C9_SynchronousSuccess ==
    AlignedLoadOk =>
        /\ obs.ret = "OK"
        /\ obs.nreq = 1
        /\ obs.resumed = 0
        /\ obs.txn_resumes = 0
        /\ obs.terminated = 0
        /\ exec.stalled = 0
        /\ ~exec.held
        /\ exec.instr_event = "none"
        /\ timing.stall_load = 0
        /\ mem.outstanding = 0
        /\ ~obs.txn_pending

\* an aligned 4-byte load at address 0 has succeeded with zero latency
C9_Witness ==
    /\ AlignedLoadOk
    /\ obs.args.addr = 0
    /\ obs.ret = "OK"

(***************************************************************************)
(* C10: when atomic's submission is answered Pending the instruction is    *)
(* suspended and the resume action is selected by size (load_signed_resume *)
(* with the destination register and the width for a narrow access,        *)
(* store_resume otherwise); when the response arrives the selected action  *)
(* runs and, in the narrow case, the destination register holds its value  *)
(* sign-extended from the recorded width.                                  *)
(***************************************************************************)
C10_AtomicPending ==
    /\ (obs.op = "atomic" /\ obs.answer = "PENDING") =>
          /\ exec.stalled = 1
          /\ IF obs.args.size # ISS_REG_WIDTH \div 8
             THEN /\ lsu.stall_callback = "load_signed_resume"
                  /\ lsu.stall_reg = DstReg
                  /\ lsu.stall_size = obs.args.size
             ELSE lsu.stall_callback = "store_resume"
    /\ (obs.op = "data_response" /\ obs.path = "atomic") =>
          /\ obs.resumed = 1
          /\ obs.action = lsu.stall_callback
          /\ obs.args.size # ISS_REG_WIDTH \div 8 =>
                regfile[DstReg] \in {iss_get_signed_value(v, obs.args.size * 8) : v \in MemValues}

(***************************************************************************)
(* C11: when atomic's submission is answered with immediate success, the   *)
(* destination register holds the returned value as it is for an access of *)
(* the native register width and the returned value sign-extended from     *)
(* size*8 bits for a narrower one; the instruction is not suspended, no    *)
(* resume action is selected or invoked, and the latency accounted is the  *)
(* returned one (nothing when it is zero).                                 *)
(***************************************************************************)
C11_AtomicImmediate ==
    [][(obs'.op = "atomic" /\ obs'.answer = "OK") =>
          LET size == obs'.args.size
          IN  /\ \E v \in MemValues :
                    regfile'[DstReg] = IF size = ISS_REG_WIDTH \div 8
                                       THEN v
                                       ELSE iss_get_signed_value(v, size * 8)
              /\ exec' = exec
              /\ exec'.stalled = 0
              /\ lsu' = lsu
              /\ obs'.resumed = 0
              /\ obs'.nreq = 1
              /\ timing'.stall_load = io_req'.latency
              /\ mem'.outstanding = 0]_vars

\* a half-width atomic has succeeded at once with a latency: the register
\* holds the negative value that the low half of 0x18080 encodes
C11_Witness ==
    /\ obs.op = "atomic"
    /\ obs.answer = "OK"
    /\ obs.args.size = GranuleSize \div 2
    /\ regfile[DstReg] < 0
    /\ io_req.latency > 0
    /\ timing.stall_load = io_req.latency

(***************************************************************************)
(* C12: atomic translates the address through the load-translation path    *)
(* for the load-reserve opcode and through the store-translation path for  *)
(* every other opcode; when the translation fails no request is submitted, *)
(* nothing is accounted, the instruction is not suspended, the request     *)
(* slot, the resume selection and the registers are unchanged and no       *)
(* resume action is invoked.                                               *)
(***************************************************************************)
C12_AtomicTranslation ==
    [][obs'.op = "atomic" =>
          /\ obs'.translate = IF obs'.args.opcode = "LR"
                              THEN "load_virt_to_phys"
                              ELSE "store_virt_to_phys"
          /\ obs'.fault =>
                /\ obs'.nreq = 0
                /\ obs'.answer = "none"
                /\ timing' = NoTiming
                /\ exec' = exec
                /\ io_req' = io_req
                /\ lsu' = lsu
                /\ regfile' = regfile
                /\ mem' = mem
                /\ obs'.resumed = 0
                /\ obs'.warnings = 0]_vars

\* the translation of a load-reserve has failed while the request slot held
\* an earlier store and the resume selection an earlier choice
C12_Witness ==
    /\ obs.op = "atomic"
    /\ obs.fault
    /\ obs.args.opcode = "LR"
    /\ obs.translate = "load_virt_to_phys"
    /\ obs.nreq = 0
    /\ io_req.is_write
    /\ lsu.stall_callback = "store_resume"

(***************************************************************************)
(* C13: in data_misaligned_req, if the first sub-access is answered        *)
(* Pending or Rejected, a forced diagnostic is emitted, the deferred       *)
(* second half is not registered, the instruction is not put in held mode, *)
(* Rejected is returned to the caller, and the second sub-access is never  *)
(* submitted for that access.                                              *)
(***************************************************************************)
C13_FirstHalfNotOk ==
    [][/\ (/\ obs'.op \in {"load", "store"}
           /\ obs'.path = "misaligned"
           /\ obs'.answer # "OK") =>
             /\ obs'.forced = 1
             /\ obs'.nreq = 1
             /\ exec'.instr_event = "none"
             /\ ~exec'.held
             /\ obs'.resumed = 0
             /\ obs'.ret = "INVALID"
       /\ (obs.path = "misaligned" /\ obs.ret = "INVALID") =>
             obs'.op # "exec_misaligned"]_vars

\* the first half of a misaligned load was answered Pending
C13_Witness ==
    /\ obs.op = "load"
    /\ obs.path = "misaligned"
    /\ obs.answer = "PENDING"
    /\ obs.ret = "INVALID"
    /\ obs.forced = 1
    /\ io_req.size = 1

(***************************************************************************)
(* C14: in data_misaligned_req, when the first sub-access is answered with *)
(* immediate success, the second sub-access is not submitted in the same   *)
(* step: exec_misaligned is registered as the delayed callback, the        *)
(* instruction is held and not suspended, the resume action is not invoked *)
(* and Pending is returned.                                                *)
(***************************************************************************)
C14_FirstHalfOk ==
    [][(/\ obs'.op \in {"load", "store"}
        /\ obs'.path = "misaligned"
        /\ obs'.answer = "OK") =>
          /\ obs'.nreq = 1
          /\ io_req'.addr = obs'.args.addr
          /\ exec'.instr_event = "exec_misaligned"
          /\ exec'.held
          /\ exec'.stalled = exec.stalled
          /\ exec'.stalled = 0
          /\ obs'.resumed = 0
          /\ obs'.txn_resumes = 0
          /\ timing'.event_load = 0
          /\ obs'.ret = "PENDING"]_vars

\* the first byte of a misaligned store has been written, the rest is deferred
C14_Witness ==
    /\ obs.op = "store"
    /\ obs.path = "misaligned"
    /\ obs.answer = "OK"
    /\ obs.ret = "PENDING"
    /\ obs.nreq = 1
    /\ io_req.size = 1
    /\ exec.held
    /\ exec.instr_event = "exec_misaligned"

(***************************************************************************)
(* C15: data_req_aligned submits exactly one request, whose slot carries   *)
(* the given address, size, direction and buffer.  On immediate success it *)
(* returns success, accounts the returned latency to the load-stall        *)
(* account (nothing when it is zero) and does not suspend the instruction; *)
(* on accepted-not-yet-complete it suspends the instruction exactly once,  *)
(* accounts no latency and returns Pending.  The call observed is the one  *)
(* data_req makes: the whole access on the aligned path, the first         *)
(* sub-access on the misaligned path.                                      *)
(***************************************************************************)
C15_AlignedOutcome ==
    [][obs'.op \in {"load", "store"} =>
          LET args == obs'.args
              aligned == obs'.path = "aligned"
          IN  /\ obs'.nreq = 1
              /\ io_req'.addr = args.addr
              /\ io_req'.data = args.data
              /\ io_req'.is_write = args.is_write
              /\ aligned => io_req'.size = args.size
              /\ obs'.answer = "OK" =>
                    /\ timing'.stall_load = io_req'.latency
                    /\ exec'.stalled = exec.stalled
                    /\ mem'.outstanding = mem.outstanding
                    /\ aligned => (obs'.ret = "OK" /\ exec' = exec)
              /\ obs'.answer = "PENDING" =>
                    /\ exec'.stalled = exec.stalled + 1
                    /\ timing'.stall_load = 0
                    /\ mem'.outstanding = mem.outstanding + 1
                    /\ aligned => (obs'.ret = "PENDING" /\ exec'.held = exec.held)]_vars

\* a 2-byte load inside a granule has succeeded with a latency
C15_Witness ==
    /\ obs.op = "load"
    /\ obs.path = "aligned"
    /\ obs.answer = "OK"
    /\ obs.ret = "OK"
    /\ obs.args.addr = 1
    /\ obs.args.size = 2
    /\ io_req.addr = 1
    /\ io_req.size = 2
    /\ io_req.latency > 0
    /\ timing.stall_load = io_req.latency
    /\ exec.stalled = 0

(***************************************************************************)
(* C16: exec_misaligned accounts exactly one load-event and one cycle and  *)
(* submits, once, the saved second sub-access (saved address, buffer       *)
(* offset, size and direction); if the submission is answered with         *)
(* immediate success it invokes the resume action registered for the       *)
(* original transaction exactly once, while the pipeline is still held,    *)
(* and only then switches the pipeline out of the held mode.               *)
(***************************************************************************)
C16_DeferredHalf ==
    [][obs'.op = "exec_misaligned" =>
          /\ timing'.event_load = timing.event_load + 1
          /\ timing'.event_load = 1
          /\ timing'.cycles = timing.cycles + 1
          /\ obs'.nreq = 1
          /\ io_req'.addr = lsu.misaligned_addr
          /\ io_req'.data = lsu.misaligned_data
          /\ io_req'.size = lsu.misaligned_size
          /\ io_req'.is_write = lsu.misaligned_is_write
          /\ io_req'.is_write = obs'.args.is_write
          /\ obs'.answer = "OK" =>
                /\ obs'.resumed = 1
                /\ obs'.txn_resumes = 1
                /\ obs'.action = lsu.stall_callback
                /\ obs'.action = IF obs'.args.is_write THEN "store_resume" ELSE "load_resume"
                /\ obs'.terminated = 1
                /\ exec.held
                /\ obs'.resume_held
                /\ ~exec'.held
          /\ obs'.answer # "OK" => obs'.resumed = 0]_vars

\* the second half of a 4-byte load at address 2 (the 2 bytes of the next
\* granule) has succeeded and the load has been resumed
C16_Witness ==
    /\ obs.op = "exec_misaligned"
    /\ obs.answer = "OK"
    /\ obs.args.addr = GranuleSize \div 2
    /\ obs.args.size = GranuleSize
    /\ io_req.addr = GranuleSize
    /\ io_req.size = GranuleSize \div 2
    /\ obs.action = "load_resume"
    /\ obs.resume_held
    /\ ~exec.held

(***************************************************************************)
(* C17: once a split access has returned Pending it is carried to its end: *)
(* the resume action is eventually invoked and the instruction is          *)
(* eventually neither held nor suspended, also when the deferred second    *)
(* half is answered Pending or Rejected.                                   *)
(***************************************************************************)
C17_CarriedToEnd ==
    (obs.path = "misaligned" /\ obs.ret = "PENDING") ~>
        (obs.txn_resumes = 1 /\ ~exec.held /\ exec.stalled = 0)

(***************************************************************************)
(* C18: when atomic's submission is answered with permanent rejection, one *)
(* diagnostic is emitted and the operation aborts after that single        *)
(* submission: the instruction is not suspended, the registers are as they *)
(* were, no latency is accounted, the resume selection (stall_callback,    *)
(* stall_reg, stall_size) is unchanged and no resume action is invoked.    *)
(***************************************************************************)
C18_AtomicRejected ==
    [][(obs'.op = "atomic" /\ obs'.answer = "INVALID") =>
          /\ obs'.warnings = 1
          /\ obs'.nreq = 1
          /\ exec' = exec
          /\ exec'.stalled = 0
          /\ regfile' = regfile
          /\ timing'.stall_load = 0
          /\ lsu'.stall_callback = lsu.stall_callback
          /\ lsu'.stall_reg = lsu.stall_reg
          /\ lsu'.stall_size = lsu.stall_size
          /\ obs'.resumed = 0
          /\ mem'.outstanding = 0]_vars

\* a half-width atomic has been rejected while the destination register
\* held the full-width value an earlier atomic had returned, whose low half
\* read as a signed number is another value
C18_Witness ==
    /\ obs.op = "atomic"
    /\ obs.answer = "INVALID"
    /\ obs.args.size = GranuleSize \div 2
    /\ obs.warnings = 1
    /\ regfile[DstReg] \in MemValues
    /\ iss_get_signed_value(regfile[DstReg], obs.args.size * 8) # regfile[DstReg]
    /\ lsu.stall_callback = "store_resume"

(***************************************************************************)
(* C19: reset(true) sets elw_stalled to false and misaligned_size to zero  *)
(* and changes nothing else (resume selection, saved address, buffer and   *)
(* direction, request slot, pipeline, registers); reset(false) changes     *)
(* nothing; and no other operation takes misaligned_size from a non-zero   *)
(* value back to zero.                                                     *)
(***************************************************************************)
C19_ResetFrame ==
    [][/\ obs'.op = "reset" =>
             /\ lsu' = IF obs'.active
                       THEN [lsu EXCEPT !.elw_stalled = FALSE, !.misaligned_size = 0]
                       ELSE lsu
             /\ io_req' = io_req
             /\ exec' = exec
             /\ timing' = timing
             /\ regfile' = regfile
             /\ mem' = mem
       /\ (lsu.misaligned_size # 0 /\ lsu'.misaligned_size = 0) =>
             (obs'.op = "reset" /\ obs'.active)]_vars

\* an active reset has cleared the remaining size of an earlier split store
\* and left the rest of its record and the resume selection in place
C19_Witness ==
    /\ obs.op = "reset"
    /\ obs.active
    /\ ~lsu.elw_stalled
    /\ lsu.misaligned_size = 0
    /\ lsu.misaligned_addr = GranuleSize
    /\ lsu.misaligned_data > 0
    /\ lsu.misaligned_is_write
    /\ lsu.stall_callback = "store_resume"
    /\ io_req.size > 0

(***************************************************************************)
(* C20: for every access of size 1..granule size that data_req routes to   *)
(* the misaligned path, the first sub-access [addr, addr+size0-1] lies in  *)
(* the granule of addr, the second sub-access [addr1, addr1+size1-1] lies  *)
(* in the next granule, and the two follow each other without gap or       *)
(* overlap and end at the last byte of the access; the same holds for the  *)
(* buffer.                                                                 *)
(***************************************************************************)
C20_HalvesStayInGranule ==
    (/\ obs.op \in {"load", "store"}
     /\ obs.path = "misaligned"
     /\ obs.args.size <= GranuleSize) =>
        LET a == obs.args.addr
            s == obs.args.size
            size0 == io_req.size
            addr1 == lsu.misaligned_addr
            size1 == lsu.misaligned_size
        IN  /\ io_req.addr = a
            /\ size0 >= 1
            /\ size1 >= 1
            /\ GranuleOf(a + size0 - 1) = GranuleOf(a)
            /\ GranuleOf(addr1) = GranuleOf(a) + 1
            /\ GranuleOf(addr1 + size1 - 1) = GranuleOf(addr1)
            /\ AndAddrMask(a) = AndAddrMask(a + size0 - 1)
            /\ AndAddrMask(addr1) = AndAddrMask(addr1 + size1 - 1)
            /\ addr1 = a + size0
            /\ addr1 + size1 = a + s
            /\ lsu.misaligned_data = io_req.data + size0

\* a 2-byte load at the last byte of the address space: one byte there and
\* one byte at address 0
C20_Witness ==
    /\ obs.op = "load"
    /\ obs.path = "misaligned"
    /\ obs.args.size = GranuleSize \div 2
    /\ obs.args.addr + 1 = 0
    /\ io_req.size = 1
    /\ lsu.misaligned_addr = 0
    /\ lsu.misaligned_size = 1

(***************************************************************************)
(* C21: in atomic the translation decides only whether the operation is    *)
(* aborted: when it succeeds, the one request submitted carries the        *)
(* address as the caller passed it, not the physical address the           *)
(* translator returned, with the given size and opcode, the storage of the *)
(* source register as data, the storage of the destination register as     *)
(* second data and the hart id as initiator.                               *)
(***************************************************************************)
C21_AtomicRequest ==
    [][(obs'.op = "atomic" /\ ~obs'.fault) =>
          /\ obs'.nreq = 1
          /\ obs'.phys_addr = virt_to_phys(obs'.args.addr)
          /\ io_req'.addr = obs'.args.addr
          /\ io_req'.addr # obs'.phys_addr
          /\ io_req'.size = obs'.args.size
          /\ io_req'.opcode = obs'.args.opcode
          /\ io_req'.data = reg_ref(SrcReg)
          /\ io_req'.second_data = reg_ref(DstReg)
          /\ io_req'.initiator = mhartid]_vars

\* a half-width ADD on the second granule has been submitted with its
\* virtual address
C21_Witness ==
    /\ obs.op = "atomic"
    /\ ~obs.fault
    /\ obs.nreq = 1
    /\ obs.args.addr = GranuleSize
    /\ obs.args.opcode = "ADD"
    /\ io_req.addr = GranuleSize
    /\ io_req.size = GranuleSize \div 2
    /\ io_req.opcode = "ADD"
    /\ io_req.second_data = reg_ref(DstReg)
    /\ obs.phys_addr > io_req.addr

(***************************************************************************)
(* C22: at each level of a power-table lookup (temperature, voltage,       *)
(* frequency), in a non-empty table sorted by ascending key, a query equal *)
(* to a stored key selects that entry alone and returns its value without  *)
(* interpolation, a query below the smallest key selects the first entry   *)
(* alone, a query above the largest key selects the last entry alone, and  *)
(* any other query selects the two adjacent entries with the greatest key  *)
(* below and the least key above it; the selected indices are valid        *)
(* indices of the table, the value returned lies between the values of the *)
(* selected entries, and a voltage table with an "any" entry returns that  *)
(* entry's value whatever the frequency.                                   *)
(***************************************************************************)
Selected(keys, x, low, high) ==
    LET n == Len(keys)
        equal == {i \in 1 .. n : keys[i] = x}
        below == {i \in 1 .. n : keys[i] < x}
        above == {i \in 1 .. n : keys[i] > x}
    IN  /\ low \in 0 .. (n - 1)
        /\ high \in 0 .. (n - 1)
        /\ equal # {} => (low = high /\ keys[low + 1] = x)
        /\ (equal = {} /\ below = {}) => (low = 0 /\ high = 0)
        /\ (equal = {} /\ above = {}) => (low = n - 1 /\ high = n - 1)
        /\ (equal = {} /\ below # {} /\ above # {}) =>
              /\ high = low + 1
              /\ keys[low + 1] < x
              /\ keys[high + 1] > x
              /\ \A i \in below : keys[i] <= keys[low + 1]
              /\ \A i \in above : keys[i] >= keys[high + 1]

\* v lies between the numbers a and b
Within(v, a, b) ==
    /\ v.den > 0
    /\ \/ (a * v.den <= v.num /\ v.num <= b * v.den)
       \/ (b * v.den <= v.num /\ v.num <= a * v.den)

FreqLevelOk(vt, r, frequency) ==
    IF vt.any # <<>>
    THEN r.any /\ r.value = Exact(vt.any[1].value)
    ELSE /\ ~r.any
         /\ Selected([i \in 1 .. Len(vt.freq_tables) |-> vt.freq_tables[i].freq],
                     frequency, r.low, r.high)
         /\ r.low = r.high => r.value = Exact(vt.freq_tables[r.low + 1].value)
         /\ Within(r.value, vt.freq_tables[r.low + 1].value,
                            vt.freq_tables[r.high + 1].value)

VoltLevelOk(tt, r, volt, frequency) ==
    /\ Selected([i \in 1 .. Len(tt.volt_tables) |-> tt.volt_tables[i].volt],
                volt, r.low, r.high)
    /\ r.low = r.high => r.value = r.at_low.value
    /\ FreqLevelOk(tt.volt_tables[r.low + 1], r.at_low, frequency)
    /\ FreqLevelOk(tt.volt_tables[r.high + 1], r.at_high, frequency)

C22_Lookup ==
    power.called =>
        LET table == power.table
            r == power.result
        IN  /\ Selected([i \in 1 .. Len(table.temp_tables) |-> table.temp_tables[i].temp],
                        power.temp, r.low, r.high)
            /\ r.low = r.high => r.value = r.at_low.value
            /\ VoltLevelOk(table.temp_tables[r.low + 1], r.at_low,
                           power.volt, power.frequency)
            /\ VoltLevelOk(table.temp_tables[r.high + 1], r.at_high,
                           power.volt, power.frequency)

\* a lookup between two stored keys at every level: the two neighbours are
\* selected at each, and the value is an interpolated one
C22_Witness ==
    /\ power.called
    /\ power.result.high = power.result.low + 1
    /\ power.result.at_low.high = power.result.at_low.low + 1
    /\ ~power.result.at_low.at_low.any
    /\ power.result.at_low.at_low.high = power.result.at_low.at_low.low + 1
    /\ power.result.value.den > 1

(***************************************************************************)
(* Sanity of the model: the pipeline's gating keeps one request at most at *)
(* the memory interface, and the resume action is selected before it is    *)
(* invoked.                                                                *)
(***************************************************************************)
TypeOK ==
    /\ lsu.stall_callback \in {"unset", "store_resume", "load_resume", "load_signed_resume"}
    /\ exec.stalled \in 0 .. 1
    /\ mem.outstanding \in 0 .. 1
    /\ obs.resumed > 0 => obs.action # "unset"

====
